---- MODULE Spec2Model ----
(***************************************************************************)
(* Model of prelim/carsa.py: the two climate-hazard indices FFDI and       *)
(* excess_heat_factor, as array transforms over a time axis.               *)
(*                                                                         *)
(* Numbers.  A float is modelled as an exact rational [n, d] in lowest     *)
(* terms with d > 0; d = 0 encodes the IEEE special values: [0,0] is NaN,  *)
(* [1,0] is +inf and [-1,0] is -inf.  Arithmetic is exact (no rounding),   *)
(* and NaN propagates as in IEEE arithmetic.                               *)
(*                                                                         *)
(* Time axis.  A DataArray along `time_dim` is a sequence; position k      *)
(* (1-based) is the source's 0-based step i = k - 1, and the time label    *)
(* of position k is k.                                                     *)
(***************************************************************************)
EXTENDS Integers, Sequences, FiniteSets

VARIABLES pc,
          temp, climatology_slice, t_95, three_day_mean, thirty_day_mean,
          ehi_sig, ehi_accl, ehi_accl_min_1, EHF,
          tempB, t_95B,
          precip, rh, tmax, wmax, p20, D, FFDI_out

vars == <<pc, temp, climatology_slice, t_95, three_day_mean, thirty_day_mean,
          ehi_sig, ehi_accl, ehi_accl_min_1, EHF, tempB, t_95B,
          precip, rh, tmax, wmax, p20, D, FFDI_out>>

ehfVars == <<temp, climatology_slice, t_95, three_day_mean, thirty_day_mean,
             ehi_sig, ehi_accl, ehi_accl_min_1, EHF, tempB, t_95B>>

ffdiVars == <<precip, rh, tmax, wmax, p20, D, FFDI_out>>

(***************************************************************************)
(* Bounds of the model                                                     *)
(***************************************************************************)
\* temperatures are drawn from 0..MaxTemp
MaxTemp == 2
\* temp has between LongWindow + ShiftSteps and that plus MaxExtra steps
MaxExtra == 1
\* climatology slices start and end on multiples of SliceStep
SliceStep == 12
\* daily rain is drawn from 0..MaxPrecip, a 100 mm day, or missing
MaxPrecip == 1
\* precip has between RainWindow and RainWindow + MaxRainExtra steps
MaxRainExtra == 2
\* humidity, temperature and wind of the FFDI are drawn from 0..MaxWx
MaxWx == 1

(***************************************************************************)
(* Program constants                                                       *)
(***************************************************************************)
ShortWindow == 3
LongWindow == 30
ShiftSteps == 3
RainWindow == 20

(***************************************************************************)
(* Float arithmetic                                                        *)
(***************************************************************************)
Abs(x) == IF x < 0 THEN -x ELSE x

Sign(x) == IF x > 0 THEN 1 ELSE IF x < 0 THEN -1 ELSE 0

RECURSIVE GCD(_, _)
GCD(a, b) == IF b = 0 THEN a ELSE GCD(b, a % b)

Norm(n, d) ==
    IF d = 0 THEN [n |-> Sign(n), d |-> 0]
    ELSE LET g == GCD(Abs(n), Abs(d))
             s == Sign(d)
         IN  [n |-> (s * n) \div g, d |-> (s * d) \div g]

Num(k) == [n |-> k, d |-> 1]

NaN == [n |-> 0, d |-> 0]

IsNaN(a) == a.d = 0 /\ a.n = 0

IsInf(a) == a.d = 0 /\ a.n # 0

IsFinite(a) == a.d # 0

\* over the least common denominator, which keeps the integers small
FAdd(a, b) ==
    IF IsInf(a) /\ IsInf(b) THEN (IF a.n = b.n THEN a ELSE NaN)
    ELSE IF a.d = 0 \/ b.d = 0 THEN Norm(a.n * b.d + b.n * a.d, 0)
    ELSE LET g == GCD(a.d, b.d)
         IN  Norm(a.n * (b.d \div g) + b.n * (a.d \div g), (a.d \div g) * b.d)

FNeg(a) == [n |-> -a.n, d |-> a.d]

FSub(a, b) == FAdd(a, FNeg(b))

FMul(a, b) == Norm(a.n * b.n, a.d * b.d)

FDiv(a, b) ==
    LET s == IF b.n < 0 THEN -1 ELSE 1
    IN  Norm(s * a.n * b.d, a.d * Abs(b.n))

\* a > b; False when either is NaN
FGt(a, b) ==
    /\ ~IsNaN(a)
    /\ ~IsNaN(b)
    /\ IF IsInf(a) /\ IsInf(b) THEN a.n > b.n
       ELSE a.n * b.d > b.n * a.d

FLt(a, b) == FGt(b, a)

FLe(a, b) == ~IsNaN(a) /\ ~IsNaN(b) /\ ~FGt(a, b)

(***************************************************************************)
(* Array operations of the library, along the time axis                    *)
(***************************************************************************)
RECURSIVE SumRange(_, _, _)
SumRange(x, lo, hi) ==
    IF lo > hi THEN Num(0) ELSE FAdd(SumRange(x, lo, hi - 1), x[hi])

\* as RollingSum with min_periods = 1: an incomplete window gives a partial sum
RollingSum_MinPeriods1(x, w) ==
    [k \in 1..Len(x) |-> SumRange(x, IF k < w THEN 1 ELSE k - w + 1, k)]

\* x.rolling({time_dim: w}).sum(): min_periods defaults to the window size,
\* so a window that is incomplete or holds a NaN gives NaN
RollingSum(x, w) ==
    [k \in 1..Len(x) |-> IF k < w THEN NaN ELSE SumRange(x, k - w + 1, k)]

\* x.shift({time_dim: s}): values move s steps later, NaN fills the front
Shift(x, s) ==
    [k \in 1..Len(x) |-> IF k <= s THEN NaN ELSE x[k - s]]

\* elementwise x / c for a Python number c
DivScalar(x, c) == [k \in 1..Len(x) |-> FDiv(x[k], Num(c))]

\* x.sel({time_dim: slice(lo, hi)}): label-based, both ends inclusive
SelPositions(x, sl) == {k \in 1..Len(x) : sl[1] <= k /\ k <= sl[2]}

\* the positions the threshold is taken over
Selected(x, sl) == IF sl = <<>> THEN 1..Len(x) ELSE SelPositions(x, sl)

\* the r-th smallest (r counted from 0) of the values x[k], k \in idx
KthSmallest(x, idx, r) ==
    CHOOSE v \in {x[k] : k \in idx} :
        /\ Cardinality({k \in idx : FLe(x[k], v)}) >= r + 1
        /\ Cardinality({k \in idx : FLt(x[k], v)}) <= r

\* quantile(q = qn/qd) over the positions idx, NaN skipped, linear
\* interpolation between the two nearest order statistics
Quantile(x, idx, qn, qd) ==
    LET def == {k \in idx : ~IsNaN(x[k])}
        m   == Cardinality(def)
    IN  IF m = 0 THEN NaN
        ELSE LET h  == (m - 1) * qn
                 lo == h \div qd
                 g  == Norm(h % qd, qd)
                 a  == KthSmallest(x, def, lo)
                 b  == IF lo + 1 <= m - 1 THEN KthSmallest(x, def, lo + 1) ELSE a
             IN  FAdd(a, FMul(g, FSub(b, a)))

\* min / max over the time axis, NaN skipped; NaN when nothing is defined
ReduceMin(x) ==
    LET def == {k \in 1..Len(x) : ~IsNaN(x[k])}
    IN  IF def = {} THEN NaN
        ELSE CHOOSE v \in {x[k] : k \in def} : \A k \in def : FLe(v, x[k])

ReduceMax(x) ==
    LET def == {k \in 1..Len(x) : ~IsNaN(x[k])}
    IN  IF def = {} THEN NaN
        ELSE CHOOSE v \in {x[k] : k \in def} : \A k \in def : FLe(x[k], v)

(***************************************************************************)
(* Inputs                                                                  *)
(***************************************************************************)
None == <<>>

\* a series of n steps at value a, with a spell at value b on steps i+1..j
Block(n, i, j, a, b) == [k \in 1..n |-> IF i < k /\ k <= j THEN b ELSE a]

TempVals == {Num(v) : v \in 0..MaxTemp}

TempLens == (LongWindow + ShiftSteps)..(LongWindow + ShiftSteps + MaxExtra)

\* slice(lo, hi) with lo <= hi, both labels on the grid; labels off the axis
\* are allowed (the selection is then clipped, or empty)
ClimSlices(n) ==
    LET grid == {s * SliceStep : s \in 0..(n \div SliceStep + 1)}
    IN  {sl \in grid \X grid : sl[1] <= sl[2]}

(***************************************************************************)
(* excess_heat_factor(temp, climatology_slice, time_dim)                   *)
(***************************************************************************)
\* as Threshold with the climatology slice ignored
Threshold_IgnoreSlice(x, sl) == Quantile(x, 1..Len(x), 95, 100)

\* lines 70-73
Threshold(x, sl) ==
    IF sl = None THEN Quantile(x, 1..Len(x), 95, 100)
    ELSE Quantile(x, SelPositions(x, sl), 95, 100)

\* t_95B is the threshold of a second call, on tempB with the same slice
GetThreshold ==
    /\ pc = "ehf_start"
    /\ t_95' = Threshold(temp, climatology_slice)
    /\ t_95B' = Threshold(tempB, climatology_slice)
    /\ pc' = "ehf_rolling"
    /\ UNCHANGED <<temp, tempB, climatology_slice, three_day_mean, thirty_day_mean,
                   ehi_sig, ehi_accl, ehi_accl_min_1, EHF>>
    /\ UNCHANGED ffdiVars

\* as ThreeDayMean with the division by the window length left out
ThreeDayMean_NoDivide(x) == RollingSum(x, ShortWindow)

\* lines 75-76
ThreeDayMean(x) == DivScalar(RollingSum(x, ShortWindow), ShortWindow)

ThirtyDayMean(x) == DivScalar(RollingSum(x, LongWindow), LongWindow)

RollingMeans ==
    /\ pc = "ehf_rolling"
    /\ three_day_mean' = ThreeDayMean(temp)
    /\ thirty_day_mean' = ThirtyDayMean(temp)
    /\ pc' = "ehf_indices"
    /\ UNCHANGED <<temp, tempB, climatology_slice, t_95, t_95B,
                   ehi_sig, ehi_accl, ehi_accl_min_1, EHF>>
    /\ UNCHANGED ffdiVars

\* line 78
Significance(tdm, t) == [k \in 1..Len(tdm) |-> FSub(tdm[k], t)]

\* as ShiftedThirtyDayMean with the shift left out
ShiftedThirtyDayMean_NoShift(x) == x

\* line 80: thirty_day_mean.shift({time_dim: 3})
ShiftedThirtyDayMean(x) == Shift(x, ShiftSteps)

Acclimatisation(tdm, thm) ==
    LET sh == ShiftedThirtyDayMean(thm)
    IN  [k \in 1..Len(tdm) |-> FSub(tdm[k], sh[k])]

Indices ==
    /\ pc = "ehf_indices"
    /\ ehi_sig' = Significance(three_day_mean, t_95)
    /\ ehi_accl' = Acclimatisation(three_day_mean, thirty_day_mean)
    /\ pc' = "ehf_return"
    /\ UNCHANGED <<temp, tempB, climatology_slice, t_95, t_95B, three_day_mean,
                   thirty_day_mean, ehi_accl_min_1, EHF>>
    /\ UNCHANGED ffdiVars

\* as WhereGt1 with the two branches swapped: min(1, a)
WhereGt1_Swapped(a) == IF FGt(a, Num(1)) THEN Num(1) ELSE a

\* as WhereGt1 with no floor at all
WhereGt1_NoFloor(a) == a

\* line 82: xr.where(ehi_accl > 1, ehi_accl, 1); NaN > 1 is False
WhereGt1(a) == IF FGt(a, Num(1)) THEN a ELSE Num(1)

\* lines 82-84
ReturnEHF ==
    /\ pc = "ehf_return"
    /\ ehi_accl_min_1' = [k \in 1..Len(temp) |-> WhereGt1(ehi_accl[k])]
    /\ EHF' = [k \in 1..Len(temp) |-> FMul(ehi_sig[k], WhereGt1(ehi_accl[k]))]
    /\ pc' = "ehf_done"
    /\ UNCHANGED <<temp, tempB, climatology_slice, t_95, t_95B, three_day_mean,
                   thirty_day_mean, ehi_sig, ehi_accl>>
    /\ UNCHANGED ffdiVars

NoFFDI ==
    /\ precip = <<>> /\ rh = <<>> /\ tmax = <<>> /\ wmax = <<>>
    /\ p20 = <<>> /\ D = <<>> /\ FFDI_out = <<>>

NoEHFResult ==
    /\ t_95 = NaN /\ t_95B = NaN
    /\ three_day_mean = <<>> /\ thirty_day_mean = <<>>
    /\ ehi_sig = <<>> /\ ehi_accl = <<>> /\ ehi_accl_min_1 = <<>> /\ EHF = <<>>

\* one call, climatology_slice left at its default
InitEHF ==
    /\ pc = "ehf_start"
    /\ \E n \in TempLens : \E i \in 0..n : \E j \in i..n :
       \E a \in TempVals : \E b \in TempVals :
            temp = Block(n, i, j, a, b)
    /\ tempB = temp
    /\ climatology_slice = None
    /\ NoEHFResult
    /\ NoFFDI

\* the value v mirrored inside 0..MaxTemp
Reflect(v) == FSub(Num(MaxTemp), v)

\* two calls with the same climatology_slice, on series that agree on every
\* step inside the slice and differ on every step outside it
InitTwin ==
    /\ pc = "ehf_start"
    /\ \E n \in TempLens : \E i \in 0..n : \E a \in TempVals : \E b \in TempVals :
       \E sl \in ClimSlices(n) \cup {None} :
            /\ temp = Block(n, i, n, a, b)
            /\ climatology_slice = sl
    /\ tempB = [k \in 1..Len(temp) |->
                    IF k \in Selected(temp, climatology_slice)
                    THEN temp[k] ELSE Reflect(temp[k])]
    /\ NoEHFResult
    /\ NoFFDI

NextEHF ==
    \/ GetThreshold
    \/ RollingMeans
    \/ Indices
    \/ ReturnEHF

SpecEHF == InitEHF /\ [][NextEHF]_vars

SpecTwin == InitTwin /\ [][NextEHF]_vars

(***************************************************************************)
(* FFDI(precip, rh, tmax, wmax, time_dim)                                  *)
(***************************************************************************)
PrecipVals == {Num(v) : v \in 0..MaxPrecip} \cup {Num(100), NaN}

PrecipLens == RainWindow..(RainWindow + MaxRainExtra)

\* <<rh, tmax, wmax>> values of a constant-weather call: all zero, or one of
\* the three fields at a value of 1..MaxWx or missing
WxVals == {Num(v) : v \in 1..MaxWx} \cup {NaN}

WxCases ==
    {<<Num(0), Num(0), Num(0)>>}
    \cup {<<v, Num(0), Num(0)>> : v \in WxVals}
    \cup {<<Num(0), v, Num(0)>> : v \in WxVals}
    \cup {<<Num(0), Num(0), v>> : v \in WxVals}

\* line 36
RollingRain ==
    /\ pc = "ffdi_start"
    /\ p20' = RollingSum(precip, RainWindow)
    /\ pc' = "ffdi_drought"
    /\ UNCHANGED <<precip, rh, tmax, wmax, D, FFDI_out>>
    /\ UNCHANGED ehfVars

\* as DroughtFactor with a zero range guarded: D = 10 when max = min
DroughtFactor_Guarded(p) ==
    LET mn == ReduceMin(p)
        mx == ReduceMax(p)
    IN  [k \in 1..Len(p) |->
            IF mx = mn /\ ~IsNaN(p[k]) THEN Num(10)
            ELSE FAdd(FMul(Num(-10), FDiv(FSub(p[k], mn), FSub(mx, mn))), Num(10))]

\* as DroughtFactor with a zero range replaced by a range of 1
DroughtFactor_RangeFloor(p) ==
    LET mn == ReduceMin(p)
        mx == ReduceMax(p)
        r  == IF mx = mn THEN Num(1) ELSE FSub(mx, mn)
    IN  [k \in 1..Len(p) |->
            FAdd(FMul(Num(-10), FDiv(FSub(p[k], mn), r)), Num(10))]

\* as DroughtFactor without the inversion
DroughtFactor_NotInverted(p) ==
    LET mn == ReduceMin(p)
        mx == ReduceMax(p)
    IN  [k \in 1..Len(p) |->
            FMul(Num(10), FDiv(FSub(p[k], mn), FSub(mx, mn)))]

\* line 38
DroughtFactor(p) ==
    LET mn == ReduceMin(p)
        mx == ReduceMax(p)
    IN  [k \in 1..Len(p) |->
            FAdd(FMul(Num(-10), FDiv(FSub(p[k], mn), FSub(mx, mn))), Num(10))]

Drought ==
    /\ pc = "ffdi_drought"
    /\ D' = DroughtFactor(p20)
    /\ pc' = "ffdi_return"
    /\ UNCHANGED <<precip, rh, tmax, wmax, p20, FFDI_out>>
    /\ UNCHANGED ehfVars

\* line 40, the argument of np.exp
Exponent(t, h, w) ==
    FAdd(FAdd(FSub(FMul(Norm(338, 10000), t), FMul(Norm(345, 10000), h)),
              FMul(Norm(234, 10000), w)),
         Norm(243147, 1000000))

\* line 40: base ** 0.987 * exp(expo), kept as the pair <<base, expo>>
\* (the power and the exponential are not rational).  NaN when either
\* operand is NaN or the base is negative; the value is 0 when base = 0
PowTimesExp(base, expo) ==
    IF IsNaN(base) \/ IsNaN(expo) \/ FLt(base, Num(0))
    THEN [base |-> NaN, expo |-> NaN]
    ELSE [base |-> base, expo |-> expo]

\* line 40; rh, tmax and wmax are first read here, so the call's weather
\* is drawn here
ReturnFFDI ==
    /\ pc = "ffdi_return"
    /\ \E wx \in WxCases :
        /\ rh' = [k \in 1..Len(precip) |-> wx[1]]
        /\ tmax' = [k \in 1..Len(precip) |-> wx[2]]
        /\ wmax' = [k \in 1..Len(precip) |-> wx[3]]
    /\ FFDI_out' = [k \in 1..Len(precip) |->
                        PowTimesExp(D[k], Exponent(tmax'[k], rh'[k], wmax'[k]))]
    /\ pc' = "ffdi_done"
    /\ UNCHANGED <<precip, p20, D>>
    /\ UNCHANGED ehfVars

InitFFDI ==
    /\ pc = "ffdi_start"
    /\ \E n \in PrecipLens : \E i \in 0..n : \E j \in i..n :
       \E a \in PrecipVals : \E b \in PrecipVals :
            precip = Block(n, i, j, a, b)
    /\ rh = <<>> /\ tmax = <<>> /\ wmax = <<>>
    /\ p20 = <<>> /\ D = <<>> /\ FFDI_out = <<>>
    /\ temp = <<>> /\ tempB = <<>> /\ climatology_slice = None
    /\ NoEHFResult

NextFFDI ==
    \/ RollingRain
    \/ Drought
    \/ ReturnFFDI

SpecFFDI == InitFFDI /\ [][NextFFDI]_vars

(***************************************************************************)
(* Properties of excess_heat_factor                                        *)
(***************************************************************************)
\* the mean of x over positions lo..hi, summed directly
WindowMean(x, lo, hi) == FDiv(SumRange(x, lo, hi), Num(hi - lo + 1))

IsConstant(x) == \A k \in 1..Len(x) : x[k] = x[1]

EHFDone == pc = "ehf_done"

\* C1: every returned value is missing at the leading steps where the 3-step
\* window (step i < 2) or the shifted 30-step window (step i < 32) is
\* incomplete; step i is position i + 1
C1_LeadingStepsMissing ==
    EHFDone => \A k \in 1..Len(temp) : k <= 32 => IsNaN(EHF[k])

C4_AcclimatisationFloor ==
    EHFDone => \A k \in 1..Len(temp) :
        ~IsNaN(ehi_accl[k]) =>
            /\ FLt(ehi_accl[k], Num(1)) =>
                    (ehi_accl_min_1[k] = Num(1) /\ EHF[k] = ehi_sig[k])
            /\ FLe(Num(1), ehi_accl[k]) =>
                    (ehi_accl_min_1[k] = ehi_accl[k]
                     /\ EHF[k] = FMul(ehi_sig[k], ehi_accl[k]))
            /\ FLe(Num(1), ehi_accl_min_1[k])
            /\ FLe(ehi_accl[k], ehi_accl_min_1[k])

C4_Witness ==
    /\ EHFDone
    /\ \E k \in 33..Len(temp) :
        /\ FLt(ehi_accl[k], Num(0))
        /\ ehi_sig[k] # Num(0)
        /\ ehi_accl_min_1[k] = Num(1)
        /\ EHF[k] = ehi_sig[k]
        /\ EHF[k] # FMul(ehi_sig[k], ehi_accl[k])

\* C5 as stated: at every fully-covered step the result is never below the
\* significance term, EHF >= ehi_sig
C5_NeverBelowSignificance ==
    EHFDone => \A k \in 33..Len(temp) : FLe(ehi_sig[k], EHF[k])

\* C5 amended: at every fully-covered step the result is never closer to zero
\* than the significance term: EHF >= ehi_sig where ehi_sig >= 0, and
\* EHF <= ehi_sig where ehi_sig <= 0
C5_NeverShrinksSignificance ==
    EHFDone => \A k \in 33..Len(temp) :
        /\ FLe(Num(0), ehi_sig[k]) => FLe(ehi_sig[k], EHF[k])
        /\ FLe(ehi_sig[k], Num(0)) => FLe(EHF[k], ehi_sig[k])

C5_Witness ==
    /\ EHFDone
    /\ \E k \in 33..Len(temp) :
        /\ FLt(ehi_sig[k], Num(0))
        /\ FGt(ehi_accl[k], Num(1))
        /\ FLt(EHF[k], ehi_sig[k])

IsP95(x, idx, q) ==
    LET def == {k \in idx : ~IsNaN(x[k])}
        m   == Cardinality(def)
        lo  == ((m - 1) * 95) \div 100
    IN  IF m = 0 THEN IsNaN(q)
        ELSE /\ Cardinality({k \in def : FLe(x[k], q)}) >= lo + 1
             /\ Cardinality({k \in def : FLe(q, x[k])}) >= m - lo - 1

AgreeOn(x, y, idx) == \A k \in idx : x[k] = y[k]

\* C10: with a climatology slice, t_95 depends only on the temp values whose
\* labels fall inside the slice (two series agreeing there get the same t_95)
\* while the rolling means still cover the full series; with
\* climatology_slice = None, t_95 is a 95th percentile of the full series
C10_ClimatologyBaseline ==
    /\ (pc # "ehf_start"
        /\ AgreeOn(temp, tempB, Selected(temp, climatology_slice)))
            => t_95 = t_95B
    /\ pc # "ehf_start"
            => IsP95(temp, Selected(temp, climatology_slice), t_95)
    /\ pc = "ehf_indices"
            => /\ \A k \in 3..Len(temp) :
                    three_day_mean[k] = WindowMean(temp, k - 2, k)
               /\ \A k \in 30..Len(temp) :
                    thirty_day_mean[k] = WindowMean(temp, k - 29, k)

C10_Witness ==
    /\ EHFDone
    /\ climatology_slice # None
    /\ Selected(temp, climatology_slice) # {}
    /\ tempB # temp
    /\ ~IsConstant(temp)
    /\ t_95 = t_95B
    /\ t_95 # Quantile(temp, 1..Len(temp), 95, 100)
    /\ t_95B # Quantile(tempB, 1..Len(tempB), 95, 100)
    /\ ~IsNaN(three_day_mean[Len(temp)])

(***************************************************************************)
(* Properties of FFDI                                                      *)
(***************************************************************************)
FFDIDone == pc = "ffdi_done"

Defined(x) == {k \in 1..Len(x) : ~IsNaN(x[k])}

\* max(p20) and min(p20) over the defined steps exist and differ
RangeNonZero(p) == \E j \in Defined(p) : \E k \in Defined(p) : p[j] # p[k]

\* max(p20) = min(p20) over the defined steps
RangeZero(p) == Defined(p) # {} /\ ~RangeNonZero(p)

IsMinimal(p, k) == \A j \in Defined(p) : FLe(p[k], p[j])

IsMaximal(p, k) == \A j \in Defined(p) : FLe(p[j], p[k])

\* the returned value is a finite number
FFDIFinite(f) == IsFinite(f.base) /\ IsFinite(f.expo)

\* the returned value is missing
FFDIMissing(f) == IsNaN(f.base)

\* the returned value is exp(c): base ** 0.987 * exp(expo) with base and expo
\* rational equals exp(c), c rational, only for base = 1 and expo = c
FFDIEqualsExp(f, c) == f.base = Num(1) /\ f.expo = c

\* 19 dry days followed by a 100 mm day, all other inputs constant 0
WorkedExample ==
    /\ precip = Block(20, 19, 20, Num(0), Num(100))
    /\ rh = [k \in 1..20 |-> Num(0)]
    /\ tmax = [k \in 1..20 |-> Num(0)]
    /\ wmax = [k \in 1..20 |-> Num(0)]

\* C2 as stated: in the worked example p20 at the last step is 100, D there
\* is 0 and the FFDI returned there is exp(0.243147)
C2_WorkedExample ==
    (FFDIDone /\ WorkedExample) =>
        /\ p20[20] = Num(100)
        /\ D[20] = Num(0)
        /\ FFDIEqualsExp(FFDI_out[20], Norm(243147, 1000000))

\* C2 amended: in the worked example p20 at the last step is 100; it is the
\* only defined p20, so max(p20) = min(p20), D at that step is 0/0 = NaN and
\* the FFDI returned there is missing
C2_WorkedExampleDegenerate ==
    (FFDIDone /\ WorkedExample) =>
        /\ p20[20] = Num(100)
        /\ Defined(p20) = {20}
        /\ IsNaN(D[20])
        /\ FFDIMissing(FFDI_out[20])

C2_Witness ==
    /\ FFDIDone
    /\ WorkedExample
    /\ p20[20] = Num(100)
    /\ FFDIMissing(FFDI_out[20])

\* C6: with max(p20) # min(p20) over the whole axis, D lies in [0, 10] at
\* every step where p20 is defined, D = 10 exactly where p20 is minimal,
\* D = 0 exactly where p20 is maximal, and D strictly decreases in p20
C6_DroughtFactorRange ==
    (pc \in {"ffdi_return", "ffdi_done"} /\ RangeNonZero(p20)) =>
        \A k \in Defined(p20) :
            /\ FLe(Num(0), D[k]) /\ FLe(D[k], Num(10))
            /\ D[k] = Num(10) <=> IsMinimal(p20, k)
            /\ D[k] = Num(0) <=> IsMaximal(p20, k)
            /\ \A j \in Defined(p20) : FLt(p20[j], p20[k]) => FGt(D[j], D[k])

C6_Witness ==
    /\ FFDIDone
    /\ RangeNonZero(p20)
    /\ \E k \in Defined(p20) :
        /\ FLt(Num(0), D[k]) /\ FLt(D[k], Num(10))
        /\ \E j \in Defined(p20) : D[j] = Num(10) /\ FLt(p20[j], p20[k])
        /\ \E j \in Defined(p20) : D[j] = Num(0) /\ FLt(p20[k], p20[j])

AllDefined ==
    /\ Defined(precip) = 1..Len(precip)
    /\ Defined(rh) = 1..Len(rh)
    /\ Defined(tmax) = 1..Len(tmax)
    /\ Defined(wmax) = 1..Len(wmax)

\* C7: for inputs of length n >= 21 with all values defined and
\* max(p20) # min(p20), p20 and the returned FFDI are missing at exactly the
\* first 19 steps and defined numbers at every later step, and p20 at step i
\* is the sum of precip over steps i-19..i
C7_RollingWarmUp ==
    (FFDIDone /\ Len(precip) >= 21 /\ AllDefined /\ RangeNonZero(p20)) =>
        \A k \in 1..Len(precip) :
            IF k <= 19
            THEN IsNaN(p20[k]) /\ FFDIMissing(FFDI_out[k])
            ELSE /\ p20[k] = SumRange(precip, k - 19, k)
                 /\ IsFinite(p20[k])
                 /\ FFDIFinite(FFDI_out[k])

C7_Witness ==
    /\ FFDIDone
    /\ Len(precip) >= 21
    /\ AllDefined
    /\ RangeNonZero(p20)
    /\ precip[1] # precip[2]
    /\ tmax[1] # Num(0)
    /\ FFDIMissing(FFDI_out[19])
    /\ FFDIFinite(FFDI_out[20])
    /\ FFDI_out[20].base # Num(0)

\* C9: when max(p20) = min(p20) over the defined steps the call still
\* completes, and the returned FFDI is not a finite number at any step,
\* whatever rh, tmax and wmax are
C9_DegenerateRange ==
    (FFDIDone /\ RangeZero(p20)) =>
        \A k \in 1..Len(precip) : ~FFDIFinite(FFDI_out[k])

C9_Witness ==
    /\ FFDIDone
    /\ RangeZero(p20)
    /\ Len(precip) >= 21
    /\ AllDefined
    /\ precip[1] # Num(0)
    /\ wmax[1] # Num(0)
    /\ \A k \in 1..Len(precip) : FFDIMissing(FFDI_out[k])

====
